---- MODULE Spec2Model ----
(***************************************************************************)
(* Connection controller, liveness monitor and session mirror of the      *)
(* voice-stream hook (src/src/hooks/useVoiceStream.ts, first listing,      *)
(* lines 1-654) and of src/src/utils/sessionPersistence.ts.                *)
(*                                                                         *)
(* Every handler of the hook runs to completion on the JavaScript event    *)
(* loop, so each handler is one action.  A handler is written as a         *)
(* function from a record of the program state to the record after the     *)
(* handler; Commit installs that record and then performs the re-render    *)
(* that React does after the handler (the cleanup of the visibility        *)
(* effect, lines 603-611).                                                 *)
(*                                                                         *)
(* connect() stores every WebSocket it creates in wsRef, and wsRef is      *)
(* otherwise only reset to null, so wsRef is null or the newest channel.   *)
(* The channels that wsRef no longer refers to still have their handlers;  *)
(* they are kept as a multiset (orphans), and so are the pending retry     *)
(* timers (retries).                                                       *)
(***************************************************************************)
EXTENDS Integers, Sequences, FiniteSets, Bags, TLC

\* ---------------------------------------------------------------- bounds
\* WebSocket objects that are not yet closed plus pending retry timers.
MaxChannels == 2
\* Cap of reconnectDelayIndexRef (the code increments it without limit).
MaxIndex == 5
\* Inbound conversation messages in one behaviour (live and queued), which
\* also bounds the length of pending_messages.
MaxMessages == 2
\* startRecording calls awaiting the microphone, and pending timers of
\* stopRecording.
MaxPending == 2
\* Values of Date.now() (and of lastActivity and maxAgeMs) in the session
\* mirror with a clock.
MaxTime == 3

\* ------------------------------------------------------------- constants
RECONNECT_DELAYS == <<1000, 2000, 5000, 10000>>

SessionIds == {1}
NoSession == 0
\* Session ids of the resume handshake (SpecResume): the server may issue a
\* second, different id.
ResumeIds == {1, 2}
NoRecord == [sessionId |-> NoSession, expired |-> FALSE]
Statuses == {"disconnected", "connecting", "ready", "recording", "processing", "reconnecting"}

\* A WebSocket: its readyState, whether 'ready' or 'session_restored' was
\* received on it, and whether a ping sent on it is still unanswered.
NoChan == [readyState |-> "NONE", ready |-> FALSE, pinged |-> FALSE]
NewChan == [readyState |-> "CONNECTING", ready |-> FALSE, pinged |-> FALSE]
Closing == [readyState |-> "CLOSING", ready |-> FALSE, pinged |-> FALSE]
LiveChans == [readyState : {"CONNECTING", "OPEN"}, ready : BOOLEAN, pinged : BOOLEAN]
OrphanChans == LiveChans \cup {Closing}

Min(a, b) == IF a < b THEN a ELSE b

\* Texts of messages; "" is the empty (or absent) text.
Texts == {"a", "b"}
\* null of responseMediaUrl, and an absent audio_url / media_url
NoUrl == ""
\* null of processingStatus
NoProcessing == [message |-> "", elapsedSeconds |-> 0]

\* The channel a timer of stopRecording captured (const ws = wsRef.current):
\* none (null), the one wsRef still refers to, or one it no longer does.
Captured == {"null", "cur", "old"}

\* An inbound conversation message: its discriminator and the fields the
\* handlers read ("" for a field the message does not carry).
Msg(type, text, accumulated, audio_url, media_url) ==
  [type |-> type, text |-> text, accumulated |-> accumulated,
   audio_url |-> audio_url, media_url |-> media_url]

NoMsg == Msg("none", "", "", NoUrl, NoUrl)

Msgs ==
  {Msg("partial_transcript", t, "", NoUrl, NoUrl) : t \in Texts}
  \cup {Msg("final_transcript", t, "", NoUrl, NoUrl) : t \in Texts}
  \cup {Msg("response_chunk", "a", acc, NoUrl, NoUrl) : acc \in {"", "ab"}}
  \cup {Msg("response_complete", t, "", um[1], um[2]) :
           t \in Texts, um \in {<<NoUrl, NoUrl>>, <<"v", NoUrl>>, <<NoUrl, "m">>}}
  \cup {Msg("processing_status", t, "", NoUrl, NoUrl) : t \in Texts}
  \cup {Msg("server_message", t, "", um[1], um[2]) :
           t \in Texts, um \in {<<NoUrl, NoUrl>>, <<"u", "m">>}}
  \cup {Msg("error", t, "", NoUrl, NoUrl) : t \in {"", "a"}}

\* The messages a server queues for a session_restored frame: every kind of
\* message, with and without the optional references.
QueuedMsgs ==
  {Msg("partial_transcript", "b", "", NoUrl, NoUrl),
   Msg("final_transcript", "a", "", NoUrl, NoUrl),
   Msg("response_chunk", "a", "ab", NoUrl, NoUrl),
   Msg("response_complete", "b", "", NoUrl, NoUrl),
   Msg("response_complete", "a", "", "v", NoUrl),
   Msg("response_complete", "a", "", NoUrl, "m"),
   Msg("processing_status", "a", "", NoUrl, NoUrl),
   Msg("server_message", "a", "", "u", "m"),
   Msg("server_message", "b", "", NoUrl, NoUrl),
   Msg("error", "a", "", NoUrl, NoUrl)}

\* Sequences of at most n queued messages.
SeqsUpTo(n) == UNION {[1..k -> QueuedMsgs] : k \in 0..n}

\* A session_restored frame.
Frames(ids, n) ==
  [session_id : ids, state : {"idle", "processing"},
   partial_transcript : {"", "a"}, partial_response : {"", "a"},
   pending_messages : SeqsUpTo(n)]

\* JavaScript's a || b on strings.
OrElse(a, b) == IF a # "" THEN a ELSE b

\* The fields of the hook that its user observes (besides sessionId).
Observable(s) ==
  [status |-> s.status, partialTranscript |-> s.partialTranscript,
   finalTranscript |-> s.finalTranscript, responseText |-> s.responseText,
   responseComplete |-> s.responseComplete,
   responseMediaUrl |-> s.responseMediaUrl,
   processingStatus |-> s.processingStatus,
   serverMessages |-> s.serverMessages, audioQueue |-> s.audioQueue,
   error |-> s.error]

NoShadow ==
  [status |-> "disconnected", partialTranscript |-> "",
   finalTranscript |-> "", responseText |-> "", responseComplete |-> FALSE,
   responseMediaUrl |-> NoUrl, processingStatus |-> NoProcessing,
   serverMessages |-> <<>>, audioQueue |-> <<>>, error |-> "none"]

VARIABLES
  \* wsRef.current: NoChan (null) or the channel it refers to
  wsRef,
  \* channels created earlier that are not closed: how many of each kind
  orphans,
  \* pending retry timers set by onclose: how many, by observation flag
  \* (TRUE: disconnect() was called after the timer was set)
  retries,
  \* state and refs of the hook
  status, sessionId, error,
  shouldReconnect, isReconnecting, reconnectDelayIndex,
  \* pingArmed: pingTimeoutRef holds a timeout that is still pending
  pongReceived, pingArmed,
  \* localStorage slot of the session mirror, and whether localStorage works
  stored, storageAvailable,
  \* whether `new WebSocket(url)` throws for this deployment's URL
  ctorFails,
  \* document.hidden
  hidden,
  \* the values that the saveState captured by the handlers of the channel
  \* in wsRef writes: those of the render that built the connect() which
  \* created the channel (kept while wsRef is null for the retry timer, which
  \* calls that same connect)
  closure,
  \* conversation state of the hook (useState, lines 53-60)
  partialTranscript, finalTranscript, responseText, responseComplete,
  responseMediaUrl, processingStatus, serverMessages, audioQueue,
  \* capture: isRecordingRef, the recorder mediaRecorderRef refers to ("null"
  \* or its state), whether streamRef holds a stream, the startRecording
  \* calls awaiting getUserMedia, and the pending timers of stopRecording
  \* (150 ms, then 100 ms) by the channel they captured
  isRecording, mediaRecorder, stream, awaiting, stopTimers, endTimers,
  \* observation variables (written, never read, by the handlers)
  pingStale, closesSinceOpen, last,
  \* inbound conversation messages so far, and the state that the pending
  \* messages of the last session_restored would have produced live
  received, shadow,
  \* the session mirror with a clock (sessionPersistence.ts): Date.now(), the
  \* string localStorage holds under STORAGE_KEY, and the last call made (its
  \* argument, the item it found and what it returned)
  now, item, call,
  \* the server messages (text and audio reference) and the audio references
  \* that have arrived so far, live or queued, in arrival order
  arrived,
  \* the audio protocol on the channel wsRef refers to, as its receiver sees
  \* it: "open" between an audio_start and the next audio_end, else "idle"
  wire

progVars == <<wsRef, orphans, retries, status, sessionId, error,
              shouldReconnect, isReconnecting, reconnectDelayIndex,
              pongReceived, pingArmed, stored, storageAvailable,
              ctorFails, hidden, closure>>
convVars == <<partialTranscript, finalTranscript, responseText,
              responseComplete, responseMediaUrl, processingStatus,
              serverMessages, audioQueue>>
capVars == <<isRecording, mediaRecorder, stream, awaiting, stopTimers,
             endTimers>>
obsVars == <<pingStale, closesSinceOpen, last, received, shadow, wire,
            arrived>>
storeVars == <<now, item, call>>
vars == <<progVars, convVars, capVars, obsVars, storeVars>>

\* The fields of a PersistedSession that saveState takes from React state;
\* NoSnapshot: nothing was handed to saveSessionState.
NoSnapshot ==
  [state |-> "", partialTranscript |-> "", partialResponse |-> "",
   audioQueueUrls |-> <<>>]

NoLast ==
  [op |-> "none", called |-> FALSE, created |-> FALSE, closed |-> FALSE,
   stale |-> FALSE, ready |-> FALSE, delay |-> 0, armed |-> FALSE,
   failed |-> FALSE, urlSid |-> NoSession, msgSid |-> NoSession,
   state |-> "", msg |-> NoMsg,
   begun |-> FALSE, sent |-> "", sentOpen |-> FALSE, dropped |-> "",
   errorSet |-> FALSE, active |-> FALSE, saved |-> FALSE,
   persisted |-> [sessionId |-> NoSession, state |-> ""],
   snapT |-> "", snapR |-> "", record |-> NoSnapshot]

\* The program state as one record, the argument of every handler below.
St ==
  [wsRef |-> wsRef, orphans |-> orphans, retries |-> retries,
   status |-> status, sessionId |-> sessionId, error |-> error,
   shouldReconnect |-> shouldReconnect, isReconnecting |-> isReconnecting,
   reconnectDelayIndex |-> reconnectDelayIndex,
   pongReceived |-> pongReceived, pingArmed |-> pingArmed,
   stored |-> stored, hidden |-> hidden, closure |-> closure,
   partialTranscript |-> partialTranscript,
   finalTranscript |-> finalTranscript, responseText |-> responseText,
   responseComplete |-> responseComplete,
   responseMediaUrl |-> responseMediaUrl,
   processingStatus |-> processingStatus,
   serverMessages |-> serverMessages, audioQueue |-> audioQueue,
   isRecording |-> isRecording, mediaRecorder |-> mediaRecorder,
   stream |-> stream, awaiting |-> awaiting, stopTimers |-> stopTimers,
   endTimers |-> endTimers, received |-> received, shadow |-> NoShadow,
   wire |-> wire, arrived |-> arrived,
   pingStale |-> pingStale, closesSinceOpen |-> closesSinceOpen,
   depsChanged |-> FALSE, last |-> NoLast]

Op(s, name) == [s EXCEPT !.last.op = name]

\* ------------------------------------------------------- session mirror
isStorageAvailable == storageAvailable

\* (mutant of saveSessionState: the store is written without the check)
saveSessionStateUnchecked(s, sid) ==
  [s EXCEPT !.stored = [sessionId |-> sid, expired |-> FALSE]]

\* saveSessionState: stamps the current time, so the stored record is fresh.
saveSessionState(s, sid) ==
  IF ~isStorageAvailable THEN s
  ELSE [s EXCEPT !.stored = [sessionId |-> sid, expired |-> FALSE]]

clearSessionState(s) ==
  IF ~isStorageAvailable THEN s ELSE [s EXCEPT !.stored = NoRecord]

\* loadSessionState: the record it returns (NoRecord = null) ...
loadSessionState(s) ==
  IF ~isStorageAvailable THEN NoRecord
  ELSE IF s.stored = NoRecord THEN NoRecord
  ELSE IF s.stored.expired THEN NoRecord
  ELSE s.stored

\* ... and the state it leaves: an expired record is deleted.
loadSessionStateEffect(s) ==
  IF isStorageAvailable /\ s.stored # NoRecord /\ s.stored.expired
  THEN clearSessionState(s) ELSE s

getSavedSessionId(s) == loadSessionState(s).sessionId

\* ------------------------------------------ session mirror with a clock
\* A PersistedSession as the callers build it; partialTranscript is optional.
Undefined == "undefined"
Sessions ==
  [sessionId : SessionIds, lastActivity : 0..MaxTime,
   state : {"idle", "processing"}, partialTranscript : {Undefined, "a"}]
NoSessionRecord ==
  [sessionId |-> NoSession, lastActivity |-> 0, state |-> "idle",
   partialTranscript |-> Undefined]

\* localStorage.getItem gives null (NoItem) or the string that was set; a
\* JSON text is modelled as the properties it lists, with their values.
NoItem == [null |-> TRUE]
OptionalFields == {"partialTranscript"}
NoCall == [op |-> "none", arg |-> NoSessionRecord, maxAge |-> 0,
           found |-> NoItem, result |-> NoSessionRecord]

\* JSON.stringify leaves out the properties that are undefined.
Stringify(rec) ==
  [k \in {f \in DOMAIN rec : f \in OptionalFields => rec[f] # Undefined}
     |-> rec[k]]

\* JSON.parse; a property the text does not have reads as undefined.
Parse(str) ==
  [k \in DOMAIN NoSessionRecord |->
     IF k \in DOMAIN str THEN str[k] ELSE Undefined]

clearSessionStateAt(it) == IF ~isStorageAvailable THEN it ELSE NoItem

\* saveSessionState at time t: { ...state, lastActivity: Date.now() }
saveSessionStateAt(it, state, t) ==
  IF ~isStorageAvailable THEN it
  ELSE Stringify([state EXCEPT !.lastActivity = t])

\* (mutant of loadSessionStateAt: a record of exactly the max age is expired)
loadSessionStateAtStrict(it, maxAgeMs, t) ==
  IF ~isStorageAvailable THEN NoSessionRecord
  ELSE IF it = NoItem THEN NoSessionRecord
  ELSE LET session == Parse(it)
           age == t - session.lastActivity
       IN IF age >= maxAgeMs THEN NoSessionRecord ELSE session

\* loadSessionState(maxAgeMs) at time t: what it returns (NoSessionRecord
\* for null) ...
loadSessionStateAt(it, maxAgeMs, t) ==
  IF ~isStorageAvailable THEN NoSessionRecord
  ELSE IF it = NoItem THEN NoSessionRecord
  ELSE LET session == Parse(it)
           age == t - session.lastActivity
       IN IF age > maxAgeMs THEN NoSessionRecord ELSE session

\* ... and the item it leaves: an expired record is removed.
loadSessionStateAtLeaves(it, maxAgeMs, t) ==
  IF it # NoItem /\ loadSessionStateAt(it, maxAgeMs, t) = NoSessionRecord
  THEN clearSessionStateAt(it) ELSE it

\* The values a saveState built by the current render writes (useCallback
\* with deps status, partialTranscript, responseText, audioQueue): state set
\* by the running handler is not in them before the next render.
Rendered ==
  [state |-> IF status = "recording" THEN "recording"
             ELSE IF status = "processing" THEN "processing" ELSE "idle",
   partialTranscript |-> partialTranscript,
   partialResponse |-> responseText,
   audioQueueUrls |-> audioQueue]

\* saveState as built by the render whose values are snap: the session id
\* is read from sessionIdRef, and nothing is stored without one.
saveStateOf(s0, snap) ==
  LET s == [s0 EXCEPT !.last.saved = TRUE] IN
  IF s.sessionId = NoSession THEN s
  ELSE saveSessionState([s EXCEPT !.last.record = snap], s.sessionId)

\* saveState of the current render.
saveState(s0) == saveStateOf(s0, Rendered)

\* ------------------------------------------------------------- channels
\* A channel is referred to as the one in wsRef (cur) or by its kind among
\* the orphans.
Refs(s) ==
  (IF s.wsRef # NoChan THEN {[cur |-> TRUE, rec |-> s.wsRef]} ELSE {})
    \cup {[cur |-> FALSE, rec |-> r] : r \in {q \in OrphanChans : s.orphans[q] > 0}}

Get(s, ref) == ref.rec

\* The state with channel ref replaced by rec.
Put(s, ref, rec) ==
  IF ref.cur THEN [s EXCEPT !.wsRef = rec]
  ELSE [s EXCEPT !.orphans = [[@ EXCEPT ![ref.rec] = @ - 1] EXCEPT ![rec] = @ + 1]]

\* wsRef stops referring to its channel: the timers of stopRecording that
\* captured it now hold a channel that wsRef no longer refers to.
Superseded(timers) ==
  [c \in Captured |-> IF c = "cur" THEN 0
                      ELSE IF c = "old" THEN timers["old"] + timers["cur"]
                      ELSE timers[c]]

\* The state with channel ref gone.
Drop(s, ref) ==
  IF ref.cur THEN [s EXCEPT !.wsRef = NoChan, !.wire = "idle",
                            !.stopTimers = Superseded(@),
                            !.endTimers = Superseded(@)]
  ELSE [s EXCEPT !.orphans[ref.rec] = @ - 1]

\* wsRef.current = v: the channel wsRef referred to lives on as an orphan.
SetWsRef(s, v) ==
  IF s.wsRef = NoChan THEN [s EXCEPT !.wsRef = v]
  ELSE [s EXCEPT !.orphans[s.wsRef] = @ + 1, !.wsRef = v, !.wire = "idle",
                 !.stopTimers = Superseded(@), !.endTimers = Superseded(@)]

\* The sum of f over S (the size of the bag that f is on S).
Sum(f, S) == BagCardinality([x \in {y \in S : f[y] > 0} |-> f[x]])

\* Objects alive: channels not closed, and pending retry timers.
Alive(s) ==
  (IF s.wsRef # NoChan THEN 1 ELSE 0)
    + Sum(s.orphans, OrphanChans) + Sum(s.retries, BOOLEAN)

\* A handler may create a channel only while the bound leaves room.
Room(s) == Alive(s) < MaxChannels

OpenCount(s) ==
  (IF s.wsRef.readyState = "OPEN" THEN 1 ELSE 0)
    + Sum(s.orphans, {r \in OrphanChans : r.readyState = "OPEN"})

\* ---------------------------------------------------------- connect()
IsOpen(s) == s.wsRef.readyState = "OPEN"

\* buildWsUrl: the session_id parameter of the request URL (NoSession: the
\* URL has no such parameter); a null id adds none.
buildWsUrl(sid) == IF sid # NoSession THEN sid ELSE NoSession

\* (mutant of connect: the request carries the id held in sessionIdRef)
connectUsesRefId(s0) ==
  LET s == [s0 EXCEPT !.last.called = TRUE] IN
  IF IsOpen(s) THEN s
  ELSE
    LET sid == s.sessionId
        s1 == loadSessionStateEffect(
                [s EXCEPT !.shouldReconnect = TRUE, !.error = "none"])
        s2 == IF sid # NoSession /\ ~s1.isReconnecting
              THEN [s1 EXCEPT !.isReconnecting = TRUE, !.status = "reconnecting"]
              ELSE [s1 EXCEPT !.status = "connecting"]
    IN IF ctorFails
       THEN [s2 EXCEPT !.error = "ctor", !.status = "disconnected"]
       ELSE [SetWsRef(s2, NewChan) EXCEPT !.closure = Rendered,
                                          !.last.created = TRUE,
                                          !.last.urlSid = buildWsUrl(sid)]

\* (mutant of connect: a constructor failure is retried like a close)
connectFailureRetries(s0) ==
  LET s == [s0 EXCEPT !.last.called = TRUE] IN
  IF IsOpen(s) THEN s
  ELSE
    LET sid == getSavedSessionId(s)
        s1 == loadSessionStateEffect(
                [s EXCEPT !.shouldReconnect = TRUE, !.error = "none"])
        s2 == IF sid # NoSession /\ ~s1.isReconnecting
              THEN [s1 EXCEPT !.isReconnecting = TRUE, !.status = "reconnecting"]
              ELSE [s1 EXCEPT !.status = "connecting"]
    IN IF ctorFails
       THEN [s2 EXCEPT !.error = "ctor", !.status = "disconnected",
                       !.retries[FALSE] = @ + 1]
       ELSE [SetWsRef(s2, NewChan) EXCEPT !.closure = Rendered,
                                          !.last.created = TRUE,
                                          !.last.urlSid = buildWsUrl(sid)]

connect(s0) ==
  LET s == [s0 EXCEPT !.last.called = TRUE] IN
  IF IsOpen(s) THEN s
  ELSE
    LET sid == getSavedSessionId(s)
        s1 == loadSessionStateEffect(
                [s EXCEPT !.shouldReconnect = TRUE, !.error = "none"])
        s2 == IF sid # NoSession /\ ~s1.isReconnecting
              THEN [s1 EXCEPT !.isReconnecting = TRUE, !.status = "reconnecting"]
              ELSE [s1 EXCEPT !.status = "connecting"]
    IN IF ctorFails
       THEN [s2 EXCEPT !.error = "ctor", !.status = "disconnected"]
       ELSE [SetWsRef(s2, NewChan) EXCEPT !.closure = Rendered,
                                          !.last.created = TRUE,
                                          !.last.urlSid = buildWsUrl(sid)]

\* ------------------------------------------------- re-render and commit
\* (mutant of EffectCleanup: the cleanup leaves the ping timeout pending)
EffectCleanupKeepsTimer(s, changed) == s

\* saveState is rebuilt when status (or a transcript/response field)
\* changes, connect with it, and the visibility effect is then torn down
\* and set up again: its cleanup clears the pending ping timeout.
EffectCleanup(s, changed) ==
  IF changed THEN [s EXCEPT !.pingArmed = FALSE, !.pingStale = FALSE] ELSE s

\* (the record is bound once, so that it is computed once per step)
Commit(s0) ==
  \E s \in {EffectCleanup(s0, \/ s0.status # status \/ s0.depsChanged
                               \/ s0.partialTranscript # partialTranscript
                               \/ s0.responseText # responseText
                               \/ s0.audioQueue # audioQueue)} :
  /\ wsRef' = s.wsRef
  /\ orphans' = s.orphans
  /\ retries' = s.retries
  /\ status' = s.status
  /\ sessionId' = s.sessionId
  /\ error' = s.error
  /\ shouldReconnect' = s.shouldReconnect
  /\ isReconnecting' = s.isReconnecting
  /\ reconnectDelayIndex' = s.reconnectDelayIndex
  /\ pongReceived' = s.pongReceived
  /\ pingArmed' = s.pingArmed
  /\ stored' = s.stored
  /\ hidden' = s.hidden
  /\ closure' = s.closure
  /\ pingStale' = s.pingStale
  /\ closesSinceOpen' = s.closesSinceOpen
  /\ last' = s.last
  /\ partialTranscript' = s.partialTranscript
  /\ finalTranscript' = s.finalTranscript
  /\ responseText' = s.responseText
  /\ responseComplete' = s.responseComplete
  /\ responseMediaUrl' = s.responseMediaUrl
  /\ processingStatus' = s.processingStatus
  /\ serverMessages' = s.serverMessages
  /\ audioQueue' = s.audioQueue
  /\ isRecording' = s.isRecording
  /\ mediaRecorder' = s.mediaRecorder
  /\ stream' = s.stream
  /\ awaiting' = s.awaiting
  /\ stopTimers' = s.stopTimers
  /\ endTimers' = s.endTimers
  /\ received' = s.received
  /\ shadow' = s.shadow
  /\ wire' = s.wire
  /\ arrived' = s.arrived
  /\ UNCHANGED <<storageAvailable, ctorFails, storeVars>>

\* ------------------------------------------------------------- handlers
\* if (wsRef.current) { wsRef.current.close(); wsRef.current = null; }
\* close() turns CONNECTING or OPEN into CLOSING; the close event comes
\* later, and a closing channel delivers no more messages.
closeAndClear(s) ==
  IF s.wsRef = NoChan THEN s
  ELSE [s EXCEPT !.orphans[Closing] = @ + 1, !.wsRef = NoChan,
                 !.wire = "idle",
                 !.stopTimers = Superseded(@), !.endTimers = Superseded(@),
                 !.last.closed = TRUE]

\* (mutant of disconnect: the session id is forgotten)
disconnectClearsId(s0) ==
  LET s == closeAndClear(saveState([s0 EXCEPT !.shouldReconnect = FALSE,
                                              !.last.armed = s0.pingArmed])) IN
  [s EXCEPT !.status = "disconnected", !.sessionId = NoSession,
            !.retries = [b \in BOOLEAN |->
                           IF b THEN s.retries[TRUE] + s.retries[FALSE] ELSE 0],
            !.pingStale = s.pingArmed]

disconnect(s0) ==
  LET s == closeAndClear(saveState([s0 EXCEPT !.shouldReconnect = FALSE,
                                              !.last.armed = s0.pingArmed])) IN
  [s EXCEPT !.status = "disconnected",
            !.retries = [b \in BOOLEAN |->
                           IF b THEN s.retries[TRUE] + s.retries[FALSE] ELSE 0],
            !.pingStale = s.pingArmed]

\* ws.onopen of channel ref
onopen(s, ref) ==
  [Put(s, ref, [Get(s, ref) EXCEPT !.readyState = "OPEN"])
     EXCEPT !.reconnectDelayIndex = 0, !.closesSinceOpen = 0]

\* ws.onerror: only sets the error text.
onerror(s) == [s EXCEPT !.error = "ws"]

\* (mutant of ReconnectDelay: the index wraps around instead of holding)
ReconnectDelayWraps(i) == RECONNECT_DELAYS[(i % Len(RECONNECT_DELAYS)) + 1]

ReconnectDelay(i) == RECONNECT_DELAYS[Min(i, Len(RECONNECT_DELAYS) - 1) + 1]

\* (mutant of onclose: gives up after the schedule is used up)
oncloseGivesUp(s0, ref) ==
  LET s1 == saveStateOf(SetWsRef(
              [Drop(s0, ref) EXCEPT !.last.ready = Get(s0, ref).ready,
                                   !.last.stale = ~ref.cur], NoChan),
              s0.closure)
  IN IF s1.shouldReconnect /\ s1.reconnectDelayIndex < Len(RECONNECT_DELAYS)
     THEN LET delay == ReconnectDelay(s1.reconnectDelayIndex) IN
          [s1 EXCEPT !.reconnectDelayIndex = @ + 1,
                     !.closesSinceOpen = @ + 1,
                     !.status = "reconnecting",
                     !.retries[FALSE] = @ + 1,
                     !.last.delay = delay]
     ELSE [s1 EXCEPT !.status = "disconnected"]

\* ws.onclose of channel ref, which is gone afterwards.
onclose(s0, ref) ==
  LET s1 == saveStateOf(SetWsRef(
              [Drop(s0, ref) EXCEPT !.last.ready = Get(s0, ref).ready,
                                   !.last.stale = ~ref.cur], NoChan),
              s0.closure)
  IN IF s1.shouldReconnect
     THEN LET delay == ReconnectDelay(s1.reconnectDelayIndex) IN
          [s1 EXCEPT !.reconnectDelayIndex = @ + 1,
                     !.closesSinceOpen = @ + 1,
                     !.status = "reconnecting",
                     !.retries[FALSE] = @ + 1,
                     !.last.delay = delay]
     ELSE [s1 EXCEPT !.status = "disconnected"]

\* The callback of a retry timer set by onclose.
retryTimer(s0, stale) ==
  LET s == [s0 EXCEPT !.retries[stale] = @ - 1, !.last.stale = stale] IN
  IF s.shouldReconnect THEN [connect(s) EXCEPT !.closure = s0.closure] ELSE s

\* (mutant of visibilityHidden: the ping timeout is left pending)
visibilityHiddenKeepsTimer(s) ==
  [saveState(s) EXCEPT !.hidden = TRUE, !.last.armed = s.pingArmed]

\* handleVisibilityChange, document.hidden
visibilityHidden(s) ==
  [saveState(s) EXCEPT !.hidden = TRUE, !.pingArmed = FALSE,
                       !.pingStale = FALSE, !.last.armed = s.pingArmed]

\* handleVisibilityChange, document visible; sendFails: ws.send throws
visibilityVisible(s0, sendFails) ==
  LET s == [s0 EXCEPT !.hidden = FALSE] IN
  IF ~s.shouldReconnect THEN s
  ELSE IF ~IsOpen(s) THEN connect([s EXCEPT !.status = "reconnecting"])
  ELSE LET s1 == [s EXCEPT !.pongReceived = FALSE] IN
       IF sendFails THEN connect([s1 EXCEPT !.status = "reconnecting",
                                            !.last.failed = TRUE])
       ELSE [s1 EXCEPT !.wsRef.pinged = TRUE, !.pingArmed = TRUE,
                       !.pingStale = FALSE]

\* The callback of the ping timeout.
pingTimeout(s0) ==
  LET s == [s0 EXCEPT !.pingArmed = FALSE, !.pingStale = FALSE,
                      !.last.stale = s0.pingStale] IN
  IF ~s.pongReceived /\ s.shouldReconnect
  THEN connect([closeAndClear(s) EXCEPT !.status = "reconnecting"])
  ELSE s

\* (mutant of onPong: the timeout is left armed)
onPongKeepsTimer(s, ref) ==
  [Put(s, ref, [Get(s, ref) EXCEPT !.pinged = FALSE])
     EXCEPT !.pongReceived = TRUE, !.last.armed = s.pingArmed]

\* ws.onmessage of channel ref, case 'pong'
onPong(s, ref) ==
  [Put(s, ref, [Get(s, ref) EXCEPT !.pinged = FALSE])
     EXCEPT !.pongReceived = TRUE, !.pingArmed = FALSE, !.pingStale = FALSE,
            !.last.armed = s.pingArmed]

\* (mutant of onReady: the record is not written)
onReadyKeepsRecord(s, ref, sid) ==
  [Put(s, ref, [Get(s, ref) EXCEPT !.ready = TRUE])
     EXCEPT !.sessionId = sid, !.status = "ready", !.error = "none",
            !.isReconnecting = FALSE, !.last.msgSid = sid,
            !.last.persisted = [sessionId |-> sid, state |-> "idle"]]

\* ws.onmessage of channel ref, case 'ready'; the record handed to
\* saveSessionState has state 'idle'.
onReady(s, ref, sid) ==
  saveSessionState(
    [Put(s, ref, [Get(s, ref) EXCEPT !.ready = TRUE])
       EXCEPT !.sessionId = sid, !.status = "ready", !.error = "none",
              !.isReconnecting = FALSE, !.last.msgSid = sid,
              !.last.persisted = [sessionId |-> sid, state |-> "idle"]], sid)

\* ws.onmessage of channel ref, case 'session_restored'.  state: the coarse
\* state the server reports; complete: pending_messages holds a
\* response_complete (handleIncomingMessage then sets status ready); snap: a
\* partial snapshot or a pending message changes a transcript or response
\* field.
onSessionRestored(s, ref, sid, state, complete, snap) ==
  [Put(s, ref, [Get(s, ref) EXCEPT !.ready = TRUE])
     EXCEPT !.sessionId = sid,
            !.status = IF complete THEN "ready"
                       ELSE IF state = "processing" THEN "processing" ELSE "ready",
            !.error = "none", !.isReconnecting = FALSE, !.depsChanged = snap,
            !.last.msgSid = sid]

\* ------------------------------------- ws.onmessage, conversation cases
onPartialTranscript(s, msg) == [s EXCEPT !.partialTranscript = msg.text]

onFinalTranscript(s, msg) ==
  [s EXCEPT !.finalTranscript = msg.text, !.partialTranscript = ""]

onResponseChunk(s, msg) ==
  [s EXCEPT !.responseText = OrElse(msg.accumulated, msg.text),
            !.status = "processing"]

\* (mutant of onResponseComplete: a message without media keeps the old one)
onResponseCompleteKeepsMedia(s, msg) ==
  [s EXCEPT !.responseText = msg.text, !.responseComplete = TRUE,
            !.responseMediaUrl = OrElse(msg.media_url, @),
            !.processingStatus = NoProcessing,
            !.audioQueue = IF msg.audio_url # NoUrl
                           THEN Append(@, msg.audio_url) ELSE @,
            !.status = "ready"]

onResponseComplete(s, msg) ==
  [s EXCEPT !.responseText = msg.text, !.responseComplete = TRUE,
            !.responseMediaUrl = OrElse(msg.media_url, NoUrl),
            !.processingStatus = NoProcessing,
            !.audioQueue = IF msg.audio_url # NoUrl
                           THEN Append(@, msg.audio_url) ELSE @,
            !.status = "ready"]

\* elapsed_seconds is carried as 1 by every processing_status message.
onProcessingStatus(s, msg) ==
  [s EXCEPT !.processingStatus = [message |-> msg.text, elapsedSeconds |-> 1]]

\* (mutant of onServerMessage: the newest message is put first)
onServerMessagePrepends(s, msg) ==
  [s EXCEPT !.serverMessages =
              <<[text |-> msg.text, audio_url |-> msg.audio_url,
                 media_url |-> msg.media_url, reason |-> "follow_up"]>> \o @,
            !.audioQueue = IF msg.audio_url # NoUrl
                           THEN Append(@, msg.audio_url) ELSE @]

onServerMessage(s, msg) ==
  [s EXCEPT !.serverMessages =
              Append(@, [text |-> msg.text, audio_url |-> msg.audio_url,
                         media_url |-> msg.media_url, reason |-> "follow_up"]),
            !.audioQueue = IF msg.audio_url # NoUrl
                           THEN Append(@, msg.audio_url) ELSE @]

\* (mutant of onErrorMessage: a remote error drops the conversation)
onErrorMessageDisconnects(s, msg) ==
  [s EXCEPT !.error = OrElse(msg.text, "Unknown error"),
            !.status = "disconnected"]

onErrorMessage(s, msg) ==
  [s EXCEPT !.error = OrElse(msg.text, "Unknown error"), !.status = "ready"]

\* (mutant of onmessage: an unknown type is handled like an error message)
onmessageUnknownIsError(s, msg) ==
  CASE msg.type = "partial_transcript" -> onPartialTranscript(s, msg)
    [] msg.type = "final_transcript" -> onFinalTranscript(s, msg)
    [] msg.type = "response_chunk" -> onResponseChunk(s, msg)
    [] msg.type = "response_complete" -> onResponseComplete(s, msg)
    [] msg.type = "processing_status" -> onProcessingStatus(s, msg)
    [] msg.type = "server_message" -> onServerMessage(s, msg)
    [] OTHER -> onErrorMessage(s, msg)

\* ws.onmessage for a conversation message received live.
onmessage(s, msg) ==
  CASE msg.type = "partial_transcript" -> onPartialTranscript(s, msg)
    [] msg.type = "final_transcript" -> onFinalTranscript(s, msg)
    [] msg.type = "response_chunk" -> onResponseChunk(s, msg)
    [] msg.type = "response_complete" -> onResponseComplete(s, msg)
    [] msg.type = "processing_status" -> onProcessingStatus(s, msg)
    [] msg.type = "server_message" -> onServerMessage(s, msg)
    [] msg.type = "error" -> onErrorMessage(s, msg)
    [] OTHER -> s

\* (mutant of handleIncomingMessage: response_complete leaves status)
handleIncomingMessageKeepsStatus(s, msg) ==
  CASE msg.type = "response_chunk" ->
         [s EXCEPT !.responseText = OrElse(msg.accumulated, msg.text)]
    [] msg.type = "response_complete" ->
         [s EXCEPT !.responseText = msg.text, !.responseComplete = TRUE,
                   !.audioQueue = IF msg.audio_url # NoUrl
                                  THEN Append(@, msg.audio_url) ELSE @]
    [] msg.type = "server_message" ->
         [s EXCEPT !.serverMessages =
                     Append(@, [text |-> msg.text, audio_url |-> msg.audio_url,
                                media_url |-> NoUrl, reason |-> "follow_up"]),
                   !.audioQueue = IF msg.audio_url # NoUrl
                                  THEN Append(@, msg.audio_url) ELSE @]
    [] OTHER -> s

\* event.data of a frame: a text that is JSON or not, and the value JSON.parse
\* gives for it.  The frames below are the ones the switch has no case for:
\* not JSON at all (also a binary frame), an object with a type that is not
\* known, and an object without a type.
UnhandledFrames ==
  {[json |-> FALSE, data |-> NoMsg],
   [json |-> TRUE, data |-> Msg("status_update", "a", "", NoUrl, NoUrl)],
   [json |-> TRUE, data |-> Msg("", "a", "", NoUrl, NoUrl)]}

\* ws.onmessage on event.data: JSON.parse throws for a text that is not
\* JSON and the catch block only logs; otherwise the switch runs.
onFrame(s, frame) ==
  IF ~frame.json THEN s ELSE onmessage(s, frame.data)

\* handleIncomingMessage: the handler of a replayed (pending) message.
handleIncomingMessage(s, msg) ==
  CASE msg.type = "response_chunk" ->
         [s EXCEPT !.responseText = OrElse(msg.accumulated, msg.text)]
    [] msg.type = "response_complete" ->
         [s EXCEPT !.responseText = msg.text, !.responseComplete = TRUE,
                   !.audioQueue = IF msg.audio_url # NoUrl
                                  THEN Append(@, msg.audio_url) ELSE @,
                   !.status = "ready"]
    [] msg.type = "server_message" ->
         [s EXCEPT !.serverMessages =
                     Append(@, [text |-> msg.text, audio_url |-> msg.audio_url,
                                media_url |-> NoUrl, reason |-> "follow_up"]),
                   !.audioQueue = IF msg.audio_url # NoUrl
                                  THEN Append(@, msg.audio_url) ELSE @]
    [] OTHER -> s

\* data.pending_messages.forEach(handleIncomingMessage)
RECURSIVE replayPending(_, _)
replayPending(s, msgs) ==
  IF msgs = <<>> THEN s
  ELSE replayPending(handleIncomingMessage(s, Head(msgs)), Tail(msgs))

\* The same messages delivered one by one to ws.onmessage.
RECURSIVE receiveLive(_, _)
receiveLive(s, msgs) ==
  IF msgs = <<>> THEN s
  ELSE receiveLive(onmessage(s, Head(msgs)), Tail(msgs))

\* ws.onmessage, case 'session_restored', for a whole frame: the snapshot
\* fields and then the pending messages.  shadow: what the pending messages
\* would have left had they arrived live after the frame.
\* (mutant of onSessionRestoredFrame: the snapshots are always applied)
onSessionRestoredFrameOverwrites(s, ref, frame) ==
  LET s1 == onSessionRestored(s, ref, frame.session_id, frame.state, FALSE, FALSE)
      s3 == [s1 EXCEPT !.partialTranscript = frame.partial_transcript,
                       !.responseText = frame.partial_response]
      n == Len(frame.pending_messages)
  IN [replayPending(s3, frame.pending_messages)
        EXCEPT !.received = @ + n,
               !.shadow = Observable(receiveLive(s3, frame.pending_messages)),
               !.last.state = frame.state,
               !.last.snapT = frame.partial_transcript,
               !.last.snapR = frame.partial_response,
               !.last.msg = IF n = 0 THEN NoMsg ELSE frame.pending_messages[n]]

onSessionRestoredFrame(s, ref, frame) ==
  LET s1 == onSessionRestored(s, ref, frame.session_id, frame.state, FALSE, FALSE)
      s2 == IF frame.partial_transcript # ""
            THEN [s1 EXCEPT !.partialTranscript = frame.partial_transcript]
            ELSE s1
      s3 == IF frame.partial_response # ""
            THEN [s2 EXCEPT !.responseText = frame.partial_response]
            ELSE s2
      n == Len(frame.pending_messages)
  IN [replayPending(s3, frame.pending_messages)
        EXCEPT !.received = @ + n,
               !.shadow = Observable(receiveLive(s3, frame.pending_messages)),
               !.last.state = frame.state,
               !.last.snapT = frame.partial_transcript,
               !.last.snapR = frame.partial_response,
               !.last.msg = IF n = 0 THEN NoMsg ELSE frame.pending_messages[n]]

\* --------------------------------------------------------------- capture
\* A frame handed to ws.send on the channel wsRef refers to, or not sent.
Send(s, frame) ==
  [s EXCEPT !.last.sent = frame, !.last.sentOpen = IsOpen(s),
            !.wire = IF frame = "audio_start" THEN "open"
                     ELSE IF frame = "audio_end" THEN "idle" ELSE @]
Reject(s, frame) == [s EXCEPT !.last.dropped = frame]
SetError(s, text) == [s EXCEPT !.error = text, !.last.errorSet = TRUE]

\* startRecording up to its await: the lock check, the cleanup of a stale
\* recorder and stream, the channel check and the status check, then
\* getUserMedia is called.
startRecording(s) ==
  IF s.isRecording THEN s
  ELSE
    LET s1 == [s EXCEPT !.mediaRecorder = "null", !.stream = FALSE] IN
    IF ~IsOpen(s1) THEN Reject(SetError(s1, "WebSocket not connected"), "audio_start")
    ELSE IF s1.status = "recording" THEN s1
    ELSE [s1 EXCEPT !.isRecording = TRUE, !.awaiting = @ + 1,
                    !.last.begun = TRUE]

\* startRecording after getUserMedia resolved: wsRef.current.send throws
\* when wsRef.current is null or still connecting, and the catch block runs.
getUserMediaResolved(s) ==
  LET s1 == [s EXCEPT !.awaiting = @ - 1, !.stream = TRUE,
                      !.mediaRecorder = "inactive"] IN
  IF ~IsOpen(s1)
  THEN Reject(SetError([s1 EXCEPT !.isRecording = FALSE], "exception"),
              "audio_start")
  ELSE [Send(s1, "audio_start")
          EXCEPT !.mediaRecorder = "recording", !.status = "recording",
                 !.partialTranscript = "", !.finalTranscript = ""]

\* startRecording after getUserMedia rejected (the catch block).
getUserMediaRejected(s) ==
  SetError([s EXCEPT !.awaiting = @ - 1, !.isRecording = FALSE],
           "exception")

\* stopRecording; the recorder and the channel are captured by the timer.
stopRecording(s) ==
  IF ~s.isRecording /\ s.mediaRecorder = "null" THEN s
  ELSE
    LET s1 == [s EXCEPT !.isRecording = FALSE]
        ws == IF s.wsRef = NoChan THEN "null" ELSE "cur"
    IN IF s1.mediaRecorder = "null" THEN s1
       ELSE IF s1.mediaRecorder # "inactive"
       THEN [s1 EXCEPT !.stopTimers[ws] = @ + 1, !.mediaRecorder = "null",
                       !.status = "ready"]
       ELSE [(IF IsOpen(s1) THEN Send(s1, "audio_end")
                            ELSE Reject(s1, "audio_end"))
               EXCEPT !.stream = FALSE, !.mediaRecorder = "null",
                      !.status = "ready"]

\* The 150 ms timer of stopRecording: stops the recorder and the tracks of
\* streamRef, and sets the 100 ms timer.
stopTimer(s, ws) ==
  [s EXCEPT !.stopTimers[ws] = @ - 1, !.stream = FALSE,
            !.endTimers[ws] = @ + 1]

\* The 100 ms timer: audio_end goes to the captured channel if it is open.
\* A channel that wsRef no longer refers to has been closed (in the
\* specifications with capture no channel is replaced while it is alive).
endTimer(s0, ws) ==
  LET s == [s0 EXCEPT !.endTimers[ws] = @ - 1] IN
  IF ws = "cur" /\ IsOpen(s) THEN Send(s, "audio_end") ELSE Reject(s, "audio_end")

\* mediaRecorder.ondataavailable with a non-empty chunk
ondataavailable(s) ==
  IF IsOpen(s) THEN Send(s, "chunk") ELSE Reject(s, "chunk")

\* mediaRecorder.onerror of the recorder mediaRecorderRef refers to; a
\* recorder that reports an error has stopped (its state is inactive).
recorderError(s) ==
  SetError([s EXCEPT !.mediaRecorder = "inactive", !.status = "ready"],
           "Recording failed")

sendText(s) ==
  IF ~IsOpen(s) THEN Reject(SetError(s, "WebSocket not connected"), "text")
  ELSE IF s.status = "recording" THEN s
  ELSE Send(s, "text")

cancel(s) ==
  [(IF IsOpen(s) THEN Send(s, "cancel") ELSE Reject(s, "cancel"))
     EXCEPT !.mediaRecorder = IF @ = "recording" THEN "inactive" ELSE @,
            !.stream = FALSE,
            !.partialTranscript = "", !.finalTranscript = "",
            !.responseText = "", !.responseComplete = FALSE,
            !.processingStatus = NoProcessing, !.status = "ready",
            !.last.active = (s.mediaRecorder = "recording")]

\* --------------------------------------------------------------- actions
InitHook(ids) ==
  /\ wsRef = NoChan
  /\ orphans = [r \in OrphanChans |-> 0]
  /\ retries = [b \in BOOLEAN |-> 0]
  /\ status = "disconnected"
  /\ sessionId = NoSession
  /\ error = "none"
  /\ shouldReconnect = TRUE
  /\ isReconnecting = FALSE
  /\ reconnectDelayIndex = 0
  /\ pongReceived = FALSE
  /\ pingArmed = FALSE
  /\ storageAvailable \in BOOLEAN
  /\ stored \in IF storageAvailable
                THEN {NoRecord} \cup [sessionId : ids, expired : BOOLEAN]
                ELSE {NoRecord}
  /\ ctorFails \in BOOLEAN
  /\ hidden = FALSE
  /\ closure = [NoSnapshot EXCEPT !.state = "idle"]
  /\ partialTranscript = ""
  /\ finalTranscript = ""
  /\ responseText = ""
  /\ responseComplete = FALSE
  /\ responseMediaUrl = NoUrl
  /\ processingStatus = NoProcessing
  /\ serverMessages = <<>>
  /\ audioQueue = <<>>
  /\ isRecording = FALSE
  /\ mediaRecorder = "null"
  /\ stream = FALSE
  /\ awaiting = 0
  /\ stopTimers = [c \in Captured |-> 0]
  /\ endTimers = [c \in Captured |-> 0]
  /\ received = 0
  /\ shadow = NoShadow
  /\ wire = "idle"
  /\ arrived = [server |-> <<>>, audio |-> <<>>]
  /\ pingStale = FALSE
  /\ closesSinceOpen = 0
  /\ last = NoLast

\* The hook's specifications below use the session mirror through the
\* `stored` slot; the mirror with a clock is exercised by SpecStore.
StoreIdle == now = 0 /\ item = NoItem /\ call = NoCall

Init == InitHook(SessionIds) /\ StoreIdle

\* The user (the App) calls connect().
Connect ==
  /\ (~IsOpen(St) /\ ~ctorFails) => Room(St)
  /\ Commit(connect(Op(St, "connect")))

\* The user calls disconnect().
Disconnect ==
  Commit(disconnect(Op(St, "disconnect")))

\* The connection of a channel is established.
ChanOpen(ref) ==
  /\ Get(St, ref).readyState = "CONNECTING"
  /\ Commit(onopen(Op(St, "onopen"), ref))

\* A channel closes: the connection failed (err: onerror fires first),
\* dropped, or the closing handshake of close() ended.
ChanClose(ref, err) ==
  /\ shouldReconnect => reconnectDelayIndex < MaxIndex
  /\ Commit(onclose(IF err THEN onerror(Op(St, "onclose")) ELSE Op(St, "onclose"), ref))

RetryFire(stale) ==
  /\ retries[stale] > 0
  /\ Commit(retryTimer(Op(St, "retry"), stale))

Hidden ==
  /\ ~hidden
  /\ Commit(visibilityHidden(Op(St, "hidden")))

Visible(sendFails) ==
  /\ hidden
  /\ (shouldReconnect /\ ~IsOpen(St) /\ ~ctorFails) => Room(St)
  /\ Commit(visibilityVisible(Op(St, "visible"), sendFails))

PingTimeout ==
  /\ pingArmed
  /\ (~pongReceived /\ shouldReconnect /\ ~ctorFails) => Room(St)
  /\ Commit(pingTimeout(Op(St, "pingTimeout")))

RecvPong(ref) ==
  /\ Get(St, ref).readyState = "OPEN"
  /\ Get(St, ref).pinged
  /\ Commit(onPong(Op(St, "pong"), ref))

RecvReady(ref, sid) ==
  /\ Get(St, ref).readyState = "OPEN"
  /\ Commit(onReady(Op(St, "ready"), ref, sid))

\* The server restores a session (the client must not assume which).
RecvSessionRestored(ref, sid, state, complete, snap) ==
  /\ Get(St, ref).readyState = "OPEN"
  /\ Commit(onSessionRestored(Op(St, "session_restored"), ref, sid,
                              state, complete, snap))

\* More than the max age passes since the record was last saved.
Expire ==
  /\ stored # NoRecord
  /\ ~stored.expired
  /\ Commit([Op(St, "expire") EXCEPT !.stored.expired = TRUE])

Next ==
  \/ Connect
  \/ Disconnect
  \/ \E ref \in Refs(St) : ChanOpen(ref)
  \/ \E ref \in Refs(St), err \in BOOLEAN : ChanClose(ref, err)
  \/ \E stale \in BOOLEAN : RetryFire(stale)
  \/ Hidden
  \/ \E sendFails \in BOOLEAN : Visible(sendFails)
  \/ PingTimeout
  \/ \E ref \in Refs(St) : RecvPong(ref)
  \/ \E ref \in Refs(St), sid \in SessionIds : RecvReady(ref, sid)
  \/ \E ref \in Refs(St), sid \in SessionIds, state \in {"idle", "processing"},
        complete \in BOOLEAN, snap \in BOOLEAN :
          RecvSessionRestored(ref, sid, state, complete, snap)
  \/ Expire

Spec == Init /\ [][Next]_vars

\* Timers fire: a pending retry timer is eventually run by the event loop.
SpecLive == Spec /\ \A stale \in BOOLEAN : WF_vars(RetryFire(stale))

\* The id of the stored record that loadSessionState would return now.
UnexpiredStoredId ==
  IF storageAvailable /\ stored # NoRecord /\ ~stored.expired
  THEN stored.sessionId ELSE NoSession

\* ------------------------------------------------------ resume handshake
\* The connection controller with a server that may issue either of two
\* session ids; the page stays in the foreground.
InitResume == InitHook(ResumeIds) /\ StoreIdle

NextResume ==
  \/ Connect
  \/ Disconnect
  \/ \E ref \in Refs(St) : ChanOpen(ref)
  \/ \E ref \in Refs(St), err \in BOOLEAN : ChanClose(ref, err)
  \/ \E stale \in BOOLEAN : RetryFire(stale)
  \/ \E ref \in Refs(St), sid \in ResumeIds : RecvReady(ref, sid)
  \/ \E ref \in Refs(St), sid \in ResumeIds, state \in {"idle", "processing"},
        complete \in BOOLEAN :
          RecvSessionRestored(ref, sid, state, complete, FALSE)
  \/ Expire

SpecResume == InitResume /\ [][NextResume]_vars

\* ---------------------------------------------------------------- capture
PendingTimers(s) == Sum(s.stopTimers, Captured) + Sum(s.endTimers, Captured)

StartRecording ==
  /\ awaiting < MaxPending
  /\ Commit(startRecording(Op(St, "startRecording")))

MicGranted ==
  /\ awaiting > 0
  /\ Commit(getUserMediaResolved(Op(St, "micGranted")))

MicDenied ==
  /\ awaiting > 0
  /\ Commit(getUserMediaRejected(Op(St, "micDenied")))

StopRecording ==
  /\ PendingTimers(St) < MaxPending
  /\ Commit(stopRecording(Op(St, "stopRecording")))

StopTimer(ws) ==
  /\ stopTimers[ws] > 0
  /\ Commit(stopTimer(Op(St, "stopTimer"), ws))

EndTimer(ws) ==
  /\ endTimers[ws] > 0
  /\ Commit(endTimer(Op(St, "endTimer"), ws))

\* A recorder that is running (or was asked for its last data by
\* stopRecording) delivers a chunk.
DataAvailable ==
  /\ mediaRecorder = "recording" \/ Sum(stopTimers, Captured) > 0
  /\ Commit(ondataavailable(Op(St, "dataavailable")))

\* The running recorder fails.
RecorderError ==
  /\ mediaRecorder = "recording"
  /\ Commit(recorderError(Op(St, "recorderError")))

SendText == Commit(sendText(Op(St, "sendText")))

Cancel == Commit(cancel(Op(St, "cancel")))

\* The hook with one channel at a time and no session mirror: capture,
\* text and cancel while the channel opens, drops (once per open) and is
\* retried.
InitCapture ==
  InitHook(SessionIds) /\ StoreIdle /\ ~ctorFails /\ ~storageAvailable

NextCapture ==
  \/ wsRef = NoChan /\ Connect
  \/ \E ref \in Refs(St) : ChanOpen(ref)
  \/ \E ref \in Refs(St) : reconnectDelayIndex = 0 /\ ChanClose(ref, FALSE)
  \/ wsRef = NoChan /\ RetryFire(FALSE)
  \/ \E ref \in Refs(St), sid \in SessionIds : RecvReady(ref, sid)
  \/ StartRecording
  \/ MicGranted
  \/ MicDenied
  \/ StopRecording
  \/ \E ws \in Captured : StopTimer(ws)
  \/ \E ws \in Captured : EndTimer(ws)
  \/ DataAvailable
  \/ RecorderError
  \/ SendText
  \/ Cancel

SpecCapture == InitCapture /\ [][NextCapture]_vars

\* ------------------------------------------------------- message router
\* The channels that can deliver a message.
OpenRefs(s) == {ref \in Refs(s) : ref.rec.readyState = "OPEN"}

\* The server messages among msgs, and the audio references msgs carry.
ServerOf(msgs) ==
  LET sel == SelectSeq(msgs, LAMBDA m : m.type = "server_message") IN
  [k \in 1..Len(sel) |-> [text |-> sel[k].text, audio_url |-> sel[k].audio_url]]

AudioOf(msgs) ==
  LET sel == SelectSeq(msgs, LAMBDA m :
               /\ m.type \in {"server_message", "response_complete"}
               /\ m.audio_url # NoUrl) IN
  [k \in 1..Len(sel) |-> sel[k].audio_url]

\* msgs have arrived.
Arrive(s, msgs) ==
  [s EXCEPT !.arrived.server = @ \o ServerOf(msgs),
            !.arrived.audio = @ \o AudioOf(msgs)]

\* A conversation message arrives on a channel.
RecvMessage(ref, msg) ==
  /\ Get(St, ref).readyState = "OPEN"
  /\ received < MaxMessages
  /\ Commit([onmessage(Arrive(Op(St, msg.type), <<msg>>), msg)
               EXCEPT !.received = @ + 1, !.last.msg = msg])

\* A frame arrives that the router has no case for.
RecvUnhandled(ref, frame) ==
  /\ Get(St, ref).readyState = "OPEN"
  /\ Commit([onFrame(Op(St, "unhandled"), frame) EXCEPT !.last.msg = frame.data,
                                                       !.last.failed = ~frame.json])

\* The server restores the session the request asked for and hands over the
\* messages it queued meanwhile.
RecvSessionRestoredFrame(ref, frame) ==
  /\ Get(St, ref).readyState = "OPEN"
  /\ frame.session_id # NoSession
  /\ UnexpiredStoredId = frame.session_id
  /\ received + Len(frame.pending_messages) <= MaxMessages
  /\ Commit(onSessionRestoredFrame(
              Arrive(Op(St, "session_restored"), frame.pending_messages),
              ref, frame))

\* One connection with the conversation on it: the channel, once open,
\* stays open.
InitRouter == InitHook(SessionIds) /\ StoreIdle /\ ~ctorFails

NextRouter ==
  \/ wsRef = NoChan /\ Connect
  \/ \E ref \in Refs(St) : ChanOpen(ref)
  \/ \E ref \in Refs(St), sid \in SessionIds : RecvReady(ref, sid)
  \/ \E ref \in OpenRefs(St),
        frame \in Frames({UnexpiredStoredId}, MaxMessages - received) :
          RecvSessionRestoredFrame(ref, frame)
  \/ \E ref \in OpenRefs(St), msg \in Msgs : RecvMessage(ref, msg)
  \/ \E ref \in OpenRefs(St), frame \in UnhandledFrames :
        RecvUnhandled(ref, frame)
  \/ Cancel

SpecRouter == InitRouter /\ [][NextRouter]_vars

\* -------------------------------------------------------- stale closure
\* One channel at a time: the App connects, the server answers and streams
\* a reply, the channel drops and the retry timer connects again.
InitClosure == InitHook(SessionIds) /\ StoreIdle /\ ~ctorFails

NextClosure ==
  \/ wsRef = NoChan /\ retries = [b \in BOOLEAN |-> 0] /\ Connect
  \/ \E ref \in Refs(St) : ChanOpen(ref)
  \/ \E ref \in Refs(St) : ChanClose(ref, FALSE)
  \/ \E stale \in BOOLEAN : RetryFire(stale)
  \/ \E ref \in Refs(St), sid \in SessionIds : RecvReady(ref, sid)
  \/ \E ref \in OpenRefs(St), msg \in Msgs : RecvMessage(ref, msg)

SpecClosure == InitClosure /\ [][NextClosure]_vars

\* ---------------------------------------------------------- remote errors
ErrorMsgs == {m \in Msgs : m.type = "error"}

\* The connection controller (connect, disconnect, drops and retries) with a
\* server that reports errors on the channels it has open.
InitErrors == InitHook(SessionIds) /\ StoreIdle

NextErrors ==
  \/ Connect
  \/ Disconnect
  \/ \E ref \in Refs(St) : ChanOpen(ref)
  \/ \E ref \in Refs(St), err \in BOOLEAN : ChanClose(ref, err)
  \/ \E stale \in BOOLEAN : RetryFire(stale)
  \/ \E ref \in Refs(St), sid \in SessionIds : RecvReady(ref, sid)
  \/ \E ref \in OpenRefs(St), msg \in ErrorMsgs : RecvMessage(ref, msg)

SpecErrors == InitErrors /\ [][NextErrors]_vars

\* ---------------------------------------------------- constructor failure
\* Whether `new WebSocket(url)` throws is decided by the browser at each
\* call (lines 135-142).
CtorChange ==
  /\ ctorFails' = ~ctorFails
  /\ last' = [NoLast EXCEPT !.op = "ctorChange"]
  /\ UNCHANGED <<wsRef, orphans, retries, status, sessionId, error,
                 shouldReconnect, isReconnecting, reconnectDelayIndex,
                 pongReceived, pingArmed, stored, storageAvailable, hidden,
                 closure, convVars, capVars, pingStale, closesSinceOpen, received,
                 shadow, wire, arrived, storeVars>>

InitCtor == InitHook(SessionIds) /\ StoreIdle

NextCtor ==
  \/ Connect
  \/ Disconnect
  \/ \E ref \in Refs(St) : ChanOpen(ref)
  \/ \E ref \in Refs(St), err \in BOOLEAN : ChanClose(ref, err)
  \/ \E stale \in BOOLEAN : RetryFire(stale)
  \/ \E ref \in Refs(St), sid \in SessionIds : RecvReady(ref, sid)
  \/ CtorChange

SpecCtor == InitCtor /\ [][NextCtor]_vars

\* ------------------------------------------ session mirror with a clock
StoreUnchanged == UNCHANGED <<progVars, convVars, capVars, obsVars>>

\* Time passes.
Tick ==
  /\ now < MaxTime
  /\ now' = now + 1
  /\ call' = [NoCall EXCEPT !.op = "tick"]
  /\ UNCHANGED item
  /\ StoreUnchanged

SaveSession(state) ==
  /\ item' = saveSessionStateAt(item, state, now)
  /\ call' = [NoCall EXCEPT !.op = "save", !.arg = state, !.found = item]
  /\ UNCHANGED now
  /\ StoreUnchanged

LoadSession(maxAgeMs) ==
  /\ item' = loadSessionStateAtLeaves(item, maxAgeMs, now)
  /\ call' = [NoCall EXCEPT !.op = "load", !.maxAge = maxAgeMs,
                            !.found = item,
                            !.result = loadSessionStateAt(item, maxAgeMs, now)]
  /\ UNCHANGED now
  /\ StoreUnchanged

ClearSession ==
  /\ item' = clearSessionStateAt(item)
  /\ call' = [NoCall EXCEPT !.op = "clear", !.found = item]
  /\ UNCHANGED now
  /\ StoreUnchanged

\* The page starts at some time, with the item an earlier page left (saved
\* no later than now) if the store works.
InitStore ==
  /\ InitHook(SessionIds) /\ ~ctorFails /\ stored = NoRecord
  /\ now \in 0..MaxTime
  /\ item \in IF storageAvailable
               THEN {NoItem} \cup {Stringify(r) : r \in {q \in Sessions : q.lastActivity <= now}}
               ELSE {NoItem}
  /\ call = NoCall

NextStore ==
  \/ Tick
  \/ \E state \in Sessions : SaveSession(state)
  \/ \E maxAgeMs \in 0..MaxTime : LoadSession(maxAgeMs)
  \/ ClearSession

SpecStore == InitStore /\ [][NextStore]_vars

\* --------------------------------------------------------- ready handshake
\* The connection controller with a server that assigns either of two
\* session ids by a ready message (and restores none).
InitReady == InitHook(ResumeIds) /\ StoreIdle

NextReady ==
  \/ Connect
  \/ Disconnect
  \/ \E ref \in Refs(St) : ChanOpen(ref)
  \/ \E ref \in Refs(St), err \in BOOLEAN : ChanClose(ref, err)
  \/ \E stale \in BOOLEAN : RetryFire(stale)
  \/ \E ref \in Refs(St), sid \in ResumeIds : RecvReady(ref, sid)
  \/ Expire

SpecReady == InitReady /\ [][NextReady]_vars

\* ------------------------------------------------------ no usable store
\* The connection controller in a browser whose localStorage does not work
\* (isStorageAvailable() is false), together with direct calls of the
\* session mirror.
InitNoStore == InitHook(SessionIds) /\ StoreIdle /\ ~storageAvailable

NextNoStore ==
  \/ Connect
  \/ Disconnect
  \/ \E ref \in Refs(St) : ChanOpen(ref)
  \/ \E ref \in Refs(St), err \in BOOLEAN : ChanClose(ref, err)
  \/ \E stale \in BOOLEAN : RetryFire(stale)
  \/ \E ref \in Refs(St), sid \in SessionIds : RecvReady(ref, sid)
  \/ \E state \in Sessions : SaveSession(state)
  \/ \E maxAgeMs \in 0..MaxTime : LoadSession(maxAgeMs)
  \/ ClearSession

SpecNoStore == InitNoStore /\ [][NextNoStore]_vars

\* ================================================================ claims
PendingRetries == retries[TRUE] + retries[FALSE]

\* C1: at most one channel is open at any time (connect() never creates a
\* channel while one it created earlier is still open).
C1_AtMostOneOpenChannel == OpenCount(St) <= 1

\* C2: disconnect() sets the should-reconnect flag false and status
\* disconnected, and a retry timer that was scheduled before a disconnect()
\* never calls connect afterwards.
C2_DisconnectCancelsRetry ==
  /\ last.op = "disconnect" => (~shouldReconnect /\ status = "disconnected")
  /\ ~(last.op = "retry" /\ last.stale /\ last.called)

C4_TimeoutForcesReconnecting ==
  (last.op = "pingTimeout" /\ last.closed) =>
     (status = "reconnecting" /\ last.called /\ last.created)

\* Channels that are open, and channels and retry timers that exist.
OpenChannels == OpenCount(St)
LiveChannels == Alive(St)

\* C5: a pong disarms the liveness timeout and changes nothing else: status,
\* session id and the channels stay as they are, no channel is closed and
\* connect is not invoked; with the timeout disarmed that probe cannot force
\* a close or a reconnect.
C5_PongOnlyDisarms ==
  [][last'.op = "pong" =>
       /\ ~pingArmed'
       /\ status' = status /\ sessionId' = sessionId
       /\ wsRef'.readyState = wsRef.readyState
       /\ OpenChannels' = OpenChannels /\ LiveChannels' = LiveChannels
       /\ shouldReconnect' = shouldReconnect
       /\ ~last'.closed /\ ~last'.called]_vars

\* A pong arrived on the open channel while the timeout was armed.
C5_Witness == last.op = "pong" /\ last.armed /\ ~pingArmed /\ IsOpen(St)

\* C6: when sending the probe throws on a channel that reports open, no
\* timer is armed, the channel is forcibly closed, status is reconnecting and
\* connect creates a new channel.
C6_ProbeSendFailureReconnects ==
  (last.op = "visible" /\ last.failed) =>
     (~pingArmed /\ last.closed /\ status = "reconnecting" /\ last.created)

\* C7: a foreground event with reconnection disabled changes nothing; with
\* reconnection enabled and the channel not open it leaves status
\* reconnecting, invokes connect and sends no probe (stated for a deployment
\* whose channel can be created).
C7_ForegroundEvent ==
  [][(last'.op = "visible" /\ ~ctorFails) =>
       IF ~shouldReconnect
       THEN /\ status' = status /\ wsRef' = wsRef /\ orphans' = orphans
            /\ ~pingArmed' /\ ~last'.called
       ELSE ~IsOpen(St) =>
              (status' = "reconnecting" /\ last'.called /\ ~pingArmed'
                 /\ ~wsRef'.pinged)]_vars

\* The documented backoff schedule, in milliseconds, by position.
ScheduleAt(k) ==
  IF k = 0 THEN 1000 ELSE IF k = 1 THEN 2000 ELSE IF k = 2 THEN 5000 ELSE 10000

\* C8: the retry set by the k-th consecutive unexpected close since the last
\* open (k = 0, 1, 2, ...) is delayed 1s, 2s, 5s, 10s and 10s from then on;
\* no other delay is used.
C8_DelayFollowsSchedule ==
  /\ (last.op = "onclose" /\ shouldReconnect) =>
        last.delay = ScheduleAt(closesSinceOpen - 1)
  /\ last.delay # 0 => (last.op = "onclose" /\ shouldReconnect)

\* The fifth close in a row (k = 4) was given the last delay of the schedule.
C8_Witness == last.op = "onclose" /\ closesSinceOpen = 5 /\ last.delay = 10000

\* C9: the first unexpected close of a channel on which ready or
\* session_restored was received is retried with the first delay.
C9_DelayResetsAfterReady ==
  (last.op = "onclose" /\ last.ready /\ shouldReconnect) => last.delay = 1000

\* C10: a close while reconnection is allowed leaves status reconnecting with
\* a retry timer set; and (timers firing) a pending retry leads to a connect
\* attempt unless reconnection is disabled meanwhile.
C10_CloseLeadsToRetry ==
  /\ []((last.op = "onclose" /\ shouldReconnect) =>
          (status = "reconnecting" /\ retries[FALSE] > 0))
  /\ (PendingRetries > 0) ~> ((last.op = "retry" /\ last.called) \/ ~shouldReconnect)

\* A retry timer ran connect after three closes in a row.
C10_Witness ==
  last.op = "retry" /\ last.called /\ last.created /\ closesSinceOpen >= 3
\* C11: every connect() that starts a connection attempt leaves status
\* reconnecting if and only if a non-expired SessionRecord exists when it is
\* called, and connecting otherwise - the first attempt and every retry.
C11_ReconnectingIffRecord ==
  [][(last'.called /\ last'.created) =>
       (status' = "reconnecting" <=> UnexpiredStoredId # NoSession)]_vars

\* C12: a connect request carries a session id exactly when a record is
\* stored and not older than the max age, the id carried is the stored one,
\* and an attempt without a usable record carries none and leaves status
\* connecting.
C12_RequestCarriesStoredId ==
  [][(last'.called /\ last'.created) =>
       /\ last'.urlSid = UnexpiredStoredId
       /\ UnexpiredStoredId = NoSession => status' = "connecting"]_vars

\* A retry made after the record of session 2 expired carried no id.
C12_Witness ==
  /\ last.op = "retry" /\ last.called /\ last.created
  /\ last.urlSid = NoSession /\ sessionId = 2 /\ storageAvailable
  /\ status = "connecting"

\* C13: the client's session id changes only when a ready or
\* session_restored message carries a different id, and then to that id; a
\* message with the id already held, and every other operation, leaves it.
C13_SessionIdStable ==
  [][sessionId' # sessionId =>
       /\ last'.op \in {"ready", "session_restored"}
       /\ last'.msgSid # sessionId
       /\ sessionId' = last'.msgSid]_vars

\* A ready with the id already held arrived after a reconnect and left it.
C13_Witness ==
  /\ last.op = "ready" /\ last.msgSid = sessionId
  /\ sessionId = 2 /\ closesSinceOpen = 0 /\ shouldReconnect
  /\ stored = [sessionId |-> 2, expired |-> FALSE]

\* C14: after a session_restored frame, the observable state left by
\* replaying its N pending messages equals the state that the same messages
\* would have left had they been received live, in the same order.
C14_ReplayEqualsLive ==
  last.op = "session_restored" => Observable(St) = shadow

\* C15: when the pending messages of a session_restored (answering a request
\* that carried the stored id) end with a response_complete of text T, the
\* state is status ready, responseText T, responseComplete true, whatever
\* coarse state the frame reports.
C15_RestoredResponseComplete ==
  (last.op = "session_restored" /\ last.msg.type = "response_complete") =>
     /\ status = "ready"
     /\ responseText = last.msg.text
     /\ responseComplete

\* The frame reported processing and its last pending message completed "b".
C15_Witness ==
  /\ last.op = "session_restored" /\ last.state = "processing"
  /\ last.msg.type = "response_complete" /\ last.msg.text = "b"
  /\ received = 2 /\ status = "ready" /\ responseText = "b"
  /\ sessionId = stored.sessionId

\* C16: cancel() called with status other than disconnected leaves status
\* ready and partial transcript, final transcript, response text,
\* response-complete flag and processing status cleared, in the same step;
\* cancel() called with status disconnected changes nothing.
C16_CancelResets ==
  [][last'.op = "cancel" =>
       IF status = "disconnected"
       THEN UNCHANGED <<status, error, convVars, capVars>>
       ELSE /\ status' = "ready"
            /\ partialTranscript' = "" /\ finalTranscript' = ""
            /\ responseText' = "" /\ ~responseComplete'
            /\ processingStatus' = NoProcessing]_vars

\* C17: while a capture is active or a startCapture awaits the microphone,
\* a further startCapture() is a no-op: it does not ask for the microphone
\* again, sends nothing and leaves the capture state and status as they are.
C17_StartWhileCapturingIsNoOp ==
  [][(last'.op = "startRecording"
        /\ (awaiting > 0 \/ mediaRecorder = "recording")) =>
       /\ ~last'.begun /\ last'.sent = ""
       /\ UNCHANGED <<status, capVars>>]_vars

\* C18: stopCapture() called with status recording leaves status ready and
\* the recording lock released in the same step, before any audio_end timer
\* has run.
C18_StopReturnsToReady ==
  [][(last'.op = "stopRecording" /\ status = "recording") =>
       (status' = "ready" /\ ~isRecording')]_vars

\* C19: the startCapture() that follows a cancel() made during an active
\* capture, with status ready and the channel open, begins a new capture.
C19_StartAfterCancel ==
  [][(last.op = "cancel" /\ last.active /\ last'.op = "startRecording"
        /\ status = "ready" /\ IsOpen(St)) =>
       (last'.begun /\ isRecording')]_vars

\* C20: a frame is handed to the channel only while it is open, and every
\* frame (audio_start, chunk, audio_end, text, cancel) that is not sent
\* because the channel is not open sets the error.
C20_RejectedFramesSetError ==
  /\ last.sent # "" => last.sentOpen
  /\ last.dropped # "" => last.errorSet


\* C21: on each channel a binary audio frame is sent only between an
\* audio_start and the audio_end that follows it, an audio_start is sent only
\* while no capture is open on the channel and an audio_end only while one
\* is, for every interleaving of startCapture, stopCapture, cancel and the
\* delayed stop timers.
C21_AudioFramesBracketed ==
  [][/\ last'.sent = "chunk" => wire = "open"
     /\ last'.sent = "audio_start" => wire = "idle"
     /\ last'.sent = "audio_end" => wire = "open"]_vars

\* C22: an error message from the remote sets the error text (the text of
\* the message when it has one) and status ready; the channels stay as they
\* are, and the should-reconnect flag, the session id and the retry state
\* (pending retry timers, delay index, reconnecting flag) are unchanged.
C22_RemoteErrorIsLocal ==
  [][last'.op = "error" =>
       /\ error' # "none"
       /\ last'.msg.text # "" => error' = last'.msg.text
       /\ status' = "ready"
       /\ wsRef' = wsRef /\ orphans' = orphans
       /\ UNCHANGED <<shouldReconnect, sessionId, retries,
                      reconnectDelayIndex, isReconnecting>>]_vars

\* An error arrived on an open channel while a retry timer was pending.
C22_Witness ==
  /\ last.op = "error" /\ status = "ready" /\ error = "a"
  /\ PendingRetries > 0 /\ reconnectDelayIndex > 0 /\ OpenChannels = 1

\* C23: each processing_status message replaces the processing-status
\* snapshot by its own message and elapsed seconds, and the snapshot is
\* absent in the state that follows every response_complete and every error
\* message.
C23_ProcessingStatusCleared ==
  /\ last.op = "processing_status" =>
        processingStatus = [message |-> last.msg.text, elapsedSeconds |-> 1]
  /\ last.op \in {"response_complete", "error"} =>
        processingStatus = NoProcessing

\* The documented edges of ConversationStatus: the operation that may move
\* status from one value to another.
ListedEdge(from, op, to) ==
  \/ op = "connect" /\ from = "disconnected"
       /\ to \in {"connecting", "reconnecting"}
  \/ op = "ready" /\ from \in {"connecting", "reconnecting"} /\ to = "ready"
  \/ op = "session_restored" /\ from \in {"connecting", "reconnecting"}
       /\ to \in {"ready", "processing"}
  \/ op \in {"startRecording", "micGranted"} /\ from = "ready"
       /\ to = "recording"
  \/ op = "stopRecording" /\ from = "recording" /\ to = "ready"
  \/ op = "onclose" /\ to \in {"reconnecting", "disconnected"}
  \/ op = "error" /\ to = "ready"

\* C24: for all sequences of user calls, inbound messages, timer firings and
\* open/close events, every change of ConversationStatus is one of the listed
\* edges (connect from disconnected; ready and session_restored from
\* connecting or reconnecting; startCapture from ready; stopCapture from
\* recording; channel close; remote error).
C24_OnlyListedEdges ==
  [][status' # status => ListedEdge(status, last'.op, status')]_vars

\* C25: every close of the channel initiated by the controller (explicit
\* disconnect and the forced close on liveness timeout) comes after an
\* attempt to persist the SessionRecord in the same operation (and is made
\* whether or not the store accepts the record).
C25_CloseAfterPersist == last.closed => last.saved

\* C26: when connect() gets past its open-channel check and the channel
\* cannot be created, an error text is set, status falls back to
\* disconnected, the channel reference and the other channels are left as
\* they were, and the failure schedules no retry.
C26_CtorFailureFallsBack ==
  [][(last'.op \in {"connect", "retry"} /\ last'.called /\ ~last'.created
        /\ ~IsOpen(St)) =>
       /\ error' # "none" /\ status' = "disconnected"
       /\ wsRef' = wsRef /\ orphans' = orphans
       /\ PendingRetries' <= PendingRetries]_vars

\* A retry's connect failed while wsRef referred to a connecting channel.
C26_Witness ==
  /\ last.op = "retry" /\ last.called /\ ~last.created
  /\ wsRef = NewChan /\ status = "disconnected" /\ error = "ctor"
  /\ shouldReconnect

\* C27: after a capture-device failure (microphone permission denied, or a
\* recorder error while capturing) the error is set, status is not recording
\* and the recording lock is released, and the startCapture() that follows
\* with status ready and the channel open is accepted.
C27_CaptureFailureResets ==
  [][/\ last'.op \in {"micDenied", "recorderError"} =>
          (error' # "none" /\ status' # "recording" /\ ~isRecording')
     /\ (last.op \in {"micDenied", "recorderError"}
           /\ last'.op = "startRecording" /\ status = "ready" /\ IsOpen(St)) =>
          last'.begun]_vars

\* C28: (with a usable store) save stores the record with lastActivity set
\* to the current time whatever value the caller passed; load(maxAge)
\* returns the stored record when its age is at most maxAge, and when its age
\* exceeds maxAge it returns absent and deletes the record; once the record
\* is absent every load returns absent, and only a save brings one back.
C28_SaveStampsLoadExpires ==
  [][storageAvailable =>
       /\ call'.op = "save" =>
             Parse(item') = [call'.arg EXCEPT !.lastActivity = now]
       /\ (call'.op = "load" /\ item # NoItem) =>
             IF now - Parse(item).lastActivity <= call'.maxAge
             THEN call'.result = Parse(item) /\ item' = item
             ELSE call'.result = NoSessionRecord /\ item' = NoItem
       /\ (call'.op = "load" /\ item = NoItem) =>
             (call'.result = NoSessionRecord /\ item' = NoItem)
       /\ (item = NoItem /\ item' # NoItem) => call'.op = "save"]_vars

\* A record last saved at time 1 was loaded at time 3 with max age 2 (its
\* age is exactly the limit) and was returned and kept.
C28_Witness ==
  /\ call.op = "load" /\ call.found # NoItem /\ call.maxAge = 2 /\ now = 3
  /\ call.result.lastActivity = 1 /\ call.result.sessionId = 1
  /\ item = call.found /\ storageAvailable

\* C29: when no usable store is available, save and clear leave the store
\* as it is and load returns absent, and every connect attempt of the
\* controller is a fresh one: status connecting and no session id in the
\* request.
C29_NoStoreConnectsFresh ==
  [][~storageAvailable =>
       /\ stored' = stored /\ item' = item
       /\ call'.op = "load" => call'.result = NoSessionRecord
       /\ (last'.called /\ last'.created) =>
             (status' = "connecting" /\ last'.urlSid = NoSession)]_vars

\* With a session id assigned by the server and nothing stored, a retry
\* connected as fresh.
C29_Witness ==
  /\ ~storageAvailable /\ last.op = "retry" /\ last.called /\ last.created
  /\ sessionId = 1 /\ last.urlSid = NoSession /\ status = "connecting"
  /\ stored = NoRecord /\ item = NoItem /\ call.op = "save"

\* C30: a ready message assigns the client session id to the id in the
\* message, sets status ready, clears the error and persists a SessionRecord
\* with that id and coarse state idle; and (the store being usable and the
\* record not older than the max age) the next connect() that makes a
\* request asks for resumption of exactly the id of the last ready message.
C30_ReadyAssignsAndPersists ==
  [][/\ last'.op = "ready" =>
          /\ sessionId' = last'.msgSid /\ status' = "ready"
          /\ error' = "none"
          /\ last'.persisted = [sessionId |-> last'.msgSid, state |-> "idle"]
          /\ storageAvailable =>
                stored' = [sessionId |-> last'.msgSid, expired |-> FALSE]
     /\ (last'.called /\ last'.created /\ sessionId # NoSession
           /\ UnexpiredStoredId # NoSession) =>
          last'.urlSid = sessionId]_vars

\* After a ready with id 2 and a close, the retry asked to resume session 2.
C30_Witness ==
  /\ last.op = "retry" /\ last.called /\ last.created /\ last.urlSid = 2
  /\ sessionId = 2 /\ status = "reconnecting" /\ closesSinceOpen = 1

\* C31: a session_restored message with no pending messages assigns the
\* session id, clears the error, sets status processing if the reported
\* coarse state is processing and ready otherwise, replaces partial
\* transcript and response text by the snapshots that are present and leaves
\* them unchanged when the snapshots are absent.
C31_RestoredWithoutPending ==
  [][(last'.op = "session_restored" /\ received' = received) =>
       /\ sessionId' = last'.msgSid /\ error' = "none"
       /\ status' = IF last'.state = "processing" THEN "processing" ELSE "ready"
       /\ partialTranscript' =
            IF last'.snapT # "" THEN last'.snapT ELSE partialTranscript
       /\ responseText' =
            IF last'.snapR # "" THEN last'.snapR ELSE responseText]_vars

\* A frame with a response snapshot and no transcript snapshot arrived after
\* a partial transcript "b" and an error: the transcript was kept.
C31_Witness ==
  /\ last.op = "session_restored" /\ last.msg = NoMsg
  /\ last.state = "processing" /\ status = "processing" /\ error = "none"
  /\ last.snapT = "" /\ partialTranscript = "b"
  /\ last.snapR = "a" /\ responseText = "a" /\ received = 2

\* C32: a response_complete message replaces the response text, sets the
\* response-complete flag, records the media reference of the message (absent
\* when it carries none), clears the processing status, appends the audio
\* reference to the end of the pending-audio sequence only if one is present,
\* and sets status ready.
C32_ResponseComplete ==
  [][last'.op = "response_complete" =>
       /\ responseText' = last'.msg.text /\ responseComplete'
       /\ responseMediaUrl' = last'.msg.media_url
       /\ processingStatus' = NoProcessing
       /\ audioQueue' = IF last'.msg.audio_url # NoUrl
                        THEN Append(audioQueue, last'.msg.audio_url)
                        ELSE audioQueue
       /\ status' = "ready"]_vars

\* A response_complete with audio "v" arrived after a server message with
\* audio "u": "v" is last in the pending-audio sequence.
C32_Witness ==
  /\ last.op = "response_complete" /\ last.msg.audio_url = "v"
  /\ audioQueue = <<"u", "v">> /\ responseText = last.msg.text
  /\ responseComplete /\ status = "ready"

\* The server-message sequence as (text, audio reference) entries.
ListedServerMessages ==
  [k \in 1..Len(serverMessages) |->
     [text |-> serverMessages[k].text, audio_url |-> serverMessages[k].audio_url]]

IsPrefix(a, b) == Len(a) <= Len(b) /\ SubSeq(b, 1, Len(a)) = a

\* C33: inbound messages only append to the server-message sequence and to
\* the pending-audio sequence: after any sequence of inbound frames (live
\* or queued) both list the received server messages and audio references in
\* arrival order, no step removes or reorders an element, and a
\* server_message changes neither status nor response text.
C33_SequencesAppendOnly ==
  /\ [](ListedServerMessages = arrived.server /\ audioQueue = arrived.audio)
  /\ [][/\ IsPrefix(serverMessages, serverMessages')
        /\ IsPrefix(audioQueue, audioQueue')
        /\ last'.op = "server_message" =>
              UNCHANGED <<status, responseText>>]_vars

\* A server message with audio "u" arrived before a queued
\* response_complete with audio "v".
C33_Witness ==
  /\ last.op = "session_restored" /\ last.msg.type = "response_complete"
  /\ Len(serverMessages) = 1 /\ audioQueue = <<"u", "v">>
  /\ arrived.audio = <<"u", "v">>

\* C34: an inbound frame that fails to parse, and a frame whose
\* discriminator is not one of the known types, leave every observable field
\* (status, session id, transcripts, response fields, sequences, processing
\* status, error) and the stored SessionRecord unchanged.
C34_UnhandledFramesIgnored ==
  [][last'.op = "unhandled" =>
       UNCHANGED <<status, sessionId, error, convVars, stored, wsRef>>]_vars

\* A frame of an unknown type arrived in the middle of a response.
C34_Witness ==
  /\ last.op = "unhandled" /\ last.msg.type = "status_update"
  /\ status = "processing" /\ responseText = "ab"
  /\ partialTranscript = "b" /\ sessionId = 1

\* C35: on a transition to background the SessionRecord is persisted (the
\* record of the session id held, if the store is usable) and the armed
\* liveness timer is cancelled: no timeout is pending while the page is in
\* the background, and none fires there.
C35_BackgroundCancelsProbe ==
  /\ [](hidden => ~pingArmed)
  /\ [][/\ last'.op = "hidden" =>
             /\ ~pingArmed' /\ last'.saved
             /\ (sessionId # NoSession /\ storageAvailable) =>
                   stored' = [sessionId |-> sessionId, expired |-> FALSE]
        /\ last'.op = "pingTimeout" => ~hidden]_vars

\* The page went to the background while a probe was unanswered: its
\* timeout is gone and the record of session 1 is stored.
C35_Witness ==
  /\ last.op = "hidden" /\ last.armed /\ ~pingArmed /\ hidden
  /\ sessionId = 1 /\ stored = [sessionId |-> 1, expired |-> FALSE]
  /\ wsRef.pinged

\* C36: status is ready, recording or processing only while wsRef refers to
\* an open channel; in particular no stopCapture, cancel or recorder error
\* after the channel has closed moves status from reconnecting or
\* disconnected to ready.
C36_ActiveStatusNeedsOpenChannel ==
  status \in {"ready", "recording", "processing"} => IsOpen(St)

\* C37: the close event of a channel that wsRef no longer refers to, while
\* wsRef refers to a newer channel, leaves the reference to the current
\* channel, the status and the pending retry timers as they are.
C37_LateCloseIsIgnored ==
  [][(last'.op = "onclose" /\ last'.stale /\ wsRef # NoChan) =>
       (wsRef' = wsRef /\ status' = status /\ retries' = retries)]_vars

\* C38: a liveness timeout that fires when wsRef does not refer to the
\* channel its probe was sent on (that channel closed, and the retry policy
\* may have opened a new one) closes no channel and does not call connect.
C38_TimeoutOnlyClosesProbed ==
  [][(last'.op = "pingTimeout" /\ ~wsRef.pinged) =>
       (~last'.closed /\ ~last'.called)]_vars

\* C39: whenever status is recording the recording lock is held (so a
\* stopCapture() made while startCapture() awaits the microphone leaves no
\* capture that starts afterwards running with the lock released).
C39_RecordingHoldsLock ==
  status = "recording" => isRecording

\* C40: the record that the close event of the channel hands to the store
\* (a session id being held) carries the coarse state, partial transcript,
\* response text and pending audio of the moment of the close.
C40_CloseRecordIsCurrent ==
  [][(last'.op = "onclose" /\ sessionId # NoSession) =>
       last'.record = Rendered]_vars

====
